---- MODULE Spec2Model ----
(***************************************************************************)
(* State-machine model of the sdl package:                                 *)
(*   - AnnotationConv (sdl/annotation.py): the replay of a finished        *)
(*     transcript against one annotator, with a bounded history window;    *)
(*   - LLMConvData / LLMConvGenerator (sdl/conversation_io.py): the        *)
(*     configuration record, its validation, and the construction of       *)
(*     Conversation objects.                                               *)
(* Two specifications: Spec (AnnotationConv) and SpecGen (configuration    *)
(* and generator).                                                         *)
(***************************************************************************)
EXTENDS Integers, Sequences, FiniteSets, TLC

\* ------------------------------------------------------------- bounds
MaxLen == 3      \* longest input transcript
MaxCtx == 2      \* largest history_ctx_len
MaxRuns == 2     \* calls of begin_annotation on one AnnotationConv
MaxCalls == 6    \* speak calls over the lifetime of one AnnotationConv
MaxUsers == 2    \* longest user_names / user_attributes list
MaxConvs == 2    \* Conversations produced by one generator
MaxConvLen == 2  \* largest conv_len

VARIABLES
    \* AnnotationConv
    conv_file,        \* the JSON document at conv_logs_path
    conv_data_dict,   \* self.conv_data_dict
    history_ctx_len,  \* self.history_ctx_len
    annotation_logs,  \* self.annotation_logs
    ctx_history,      \* begin_annotation's local deque
    pc,               \* "idle" | "loop" | "speak": position in begin_annotation
    it,               \* messages taken from the iterator in the current run
    last,             \* how the last call ended: "none" | "returned" | "raised"
    doc,              \* the document the last to_dict returned, or NoDoc
    speak_hists,      \* annotator side: histories received in the current run
    speak_rets,       \* annotator side: results returned in the current run
    agent_raised,     \* annotator side: generation failed in the current run
    run_base,         \* len(annotation_logs) when the current run began
    started, completed, failed, calls,   \* counters of runs and speak calls
    \* LLMConvData / LLMConvGenerator / Conversation
    args,             \* the keyword arguments / JSON mapping offered
    data,             \* the LLMConvData instance, or None
    error,            \* the exception the last operation raised, or "none"
    gen,              \* the LLMConvGenerator instance, or None
    tms,              \* heap of TurnManager objects: id -> rotation index
    convs             \* the Conversations produced so far

annVars == <<conv_file, conv_data_dict, history_ctx_len, annotation_logs,
             ctx_history, pc, it, last, doc, speak_hists, speak_rets,
             agent_raised, run_base, started, completed, failed, calls>>
genVars == <<args, data, error, gen, tms, convs>>
vars == <<annVars, genVars>>

None == [t |-> "none"]
NoDoc == [t |-> "nodoc"]

\* ------------------------------------------------------------ helpers
Min(a, b) == IF a < b THEN a ELSE b

RECURSIVE SeqsUpTo(_, _)
SeqsUpTo(S, n) ==
    IF n = 0 THEN {<<>>}
    ELSE LET shorter == SeqsUpTo(S, n - 1)
         IN shorter \cup {Append(s, x) : s \in {q \in shorter : Len(q) = n - 1}, x \in S}

\* JSON scalars carry their type: a string and a number are never equal.
JStr(s) == [t |-> "str", v |-> s]
JNum(n) == [t |-> "num", v |-> n]
SameJson(a, b) == a.t = b.t /\ a.v = b.v

\* Python's str(): a string is returned as is, a number as its decimal text.
PyStr(x) == IF x.t = "str" THEN x.v ELSE ToString(x.v)

\* util.format_chat_message(username, message)
format_chat_message(username, message) == username \o ": " \o message

\* collections.deque(maxlen=n).append(x), without the eviction
DequeAppendUnbounded(d, maxlen, x) == Append(d, x)

\* collections.deque(maxlen=n).append(x), a full deque refusing the new entry
DequeAppendDropNewest(d, maxlen, x) ==
    IF Len(d) >= maxlen THEN d ELSE Append(d, x)

\* collections.deque(maxlen=n).append(x): a full deque drops its oldest entry;
\* with maxlen = 0 the deque stays empty.
DequeAppend(d, maxlen, x) ==
    IF maxlen = 0 THEN <<>>
    ELSE IF Len(d) = maxlen THEN Append(Tail(d), x)
    ELSE Append(d, x)

\* ------------------------------------------------------------- inputs
Entries == { <<"alice", "hi">>, <<"bob", "hi">>, <<"bob", "no">> }
Transcripts == SeqsUpTo(Entries, MaxLen)
Ids == { JStr("c1"), JNum(7) }
Annotations == { "ok", "toxic" }

logs == conv_data_dict.logs
N == Len(logs)

\* ------------------------------------------------- AnnotationConv
\* AnnotationConv.__init__
AnnInit ==
    /\ conv_file \in [id : Ids, logs : Transcripts]
    /\ conv_data_dict = conv_file
    /\ history_ctx_len \in 0..MaxCtx
    /\ annotation_logs = <<>>
    /\ ctx_history = <<>>
    /\ pc = "idle"
    /\ it = 0
    /\ last = "none"
    /\ doc = NoDoc
    /\ speak_hists = <<>>
    /\ speak_rets = <<>>
    /\ agent_raised = FALSE
    /\ run_base = 0
    /\ started = 0
    /\ completed = 0
    /\ failed = 0
    /\ calls = 0

\* begin_annotation with the window kept from the previous call
BeginAnnotationKeepWindow ==
    /\ pc = "idle"
    /\ started < MaxRuns
    /\ pc' = "loop"
    /\ it' = 0
    /\ doc' = NoDoc
    /\ speak_hists' = <<>>
    /\ speak_rets' = <<>>
    /\ agent_raised' = FALSE
    /\ run_base' = Len(annotation_logs)
    /\ started' = started + 1
    /\ UNCHANGED genVars
    /\ UNCHANGED <<conv_file, conv_data_dict, history_ctx_len, annotation_logs,
                   ctx_history, last, completed, failed, calls>>

\* begin_annotation, entry: ctx_history = collections.deque(maxlen=...)
BeginAnnotation ==
    /\ pc = "idle"
    /\ started < MaxRuns
    /\ ctx_history' = <<>>
    /\ pc' = "loop"
    /\ it' = 0
    /\ doc' = NoDoc
    /\ speak_hists' = <<>>
    /\ speak_rets' = <<>>
    /\ agent_raised' = FALSE
    /\ run_base' = Len(annotation_logs)
    /\ started' = started + 1
    /\ UNCHANGED genVars
    /\ UNCHANGED <<conv_file, conv_data_dict, history_ctx_len, annotation_logs,
                   last, completed, failed, calls>>

\* loop body up to the call: the annotator is called before the push
NextMessageSpeakFirst ==
    /\ pc = "loop"
    /\ it < N
    /\ calls < MaxCalls
    /\ LET username == logs[it + 1][1]
           message == logs[it + 1][2]
           formatted_message == format_chat_message(username, message)
       IN /\ ctx_history' = DequeAppend(ctx_history, history_ctx_len, formatted_message)
          /\ speak_hists' = Append(speak_hists, ctx_history)
    /\ it' = it + 1
    /\ calls' = calls + 1
    /\ pc' = "speak"
    /\ UNCHANGED genVars
    /\ UNCHANGED <<conv_file, conv_data_dict, history_ctx_len, annotation_logs,
                   last, doc, speak_rets, agent_raised, run_base, started,
                   completed, failed>>

\* loop body up to the call: next (username, message), format, push, and
\* self.annotator.speak(list(ctx_history)) is entered
NextMessage ==
    /\ pc = "loop"
    /\ it < N
    /\ calls < MaxCalls
    /\ LET username == logs[it + 1][1]
           message == logs[it + 1][2]
           formatted_message == format_chat_message(username, message)
       IN /\ ctx_history' = DequeAppend(ctx_history, history_ctx_len, formatted_message)
          /\ speak_hists' = Append(speak_hists, ctx_history')
    /\ it' = it + 1
    /\ calls' = calls + 1
    /\ pc' = "speak"
    /\ UNCHANGED genVars
    /\ UNCHANGED <<conv_file, conv_data_dict, history_ctx_len, annotation_logs,
                   last, doc, speak_rets, agent_raised, run_base, started,
                   completed, failed>>

\* speak returns; the formatted message is logged in place of the raw one
SpeakReturnLogFormatted ==
    /\ pc = "speak"
    /\ \E annotation \in Annotations :
          /\ annotation_logs' = Append(annotation_logs,
                 <<format_chat_message(logs[it][1], logs[it][2]), annotation>>)
          /\ speak_rets' = Append(speak_rets, annotation)
    /\ pc' = "loop"
    /\ UNCHANGED genVars
    /\ UNCHANGED <<conv_file, conv_data_dict, history_ctx_len, ctx_history, it,
                   last, doc, speak_hists, agent_raised, run_base, started,
                   completed, failed, calls>>

\* speak returns the annotation; self.annotation_logs.append((message, annotation))
SpeakReturn ==
    /\ pc = "speak"
    /\ \E annotation \in Annotations :
          /\ annotation_logs' = Append(annotation_logs, <<logs[it][2], annotation>>)
          /\ speak_rets' = Append(speak_rets, annotation)
    /\ pc' = "loop"
    /\ UNCHANGED genVars
    /\ UNCHANGED <<conv_file, conv_data_dict, history_ctx_len, ctx_history, it,
                   last, doc, speak_hists, agent_raised, run_base, started,
                   completed, failed, calls>>

\* the generation call fails; the failure is swallowed and the loop goes on
SpeakRaiseSwallowed ==
    /\ pc = "speak"
    /\ agent_raised' = TRUE
    /\ pc' = "loop"
    /\ UNCHANGED genVars
    /\ UNCHANGED <<conv_file, conv_data_dict, history_ctx_len, annotation_logs,
                   ctx_history, it, last, doc, speak_hists, speak_rets, run_base,
                   started, completed, failed, calls>>

\* the generation call fails: model.prompt raises, speak and begin_annotation
\* have no handler, and the exception reaches the caller of begin_annotation
SpeakRaise ==
    /\ pc = "speak"
    /\ agent_raised' = TRUE
    /\ pc' = "idle"
    /\ last' = "raised"
    /\ failed' = failed + 1
    /\ UNCHANGED genVars
    /\ UNCHANGED <<conv_file, conv_data_dict, history_ctx_len, annotation_logs,
                   ctx_history, it, doc, speak_hists, speak_rets, run_base,
                   started, completed, calls>>

\* the for loop is exhausted and begin_annotation returns
EndAnnotation ==
    /\ pc = "loop"
    /\ it = N
    /\ pc' = "idle"
    /\ last' = "returned"
    /\ completed' = completed + 1
    /\ UNCHANGED genVars
    /\ UNCHANGED <<conv_file, conv_data_dict, history_ctx_len, annotation_logs,
                   ctx_history, it, doc, speak_hists, speak_rets, agent_raised,
                   run_base, started, failed, calls>>

\* to_dict exporting the raw id
ToDictRawId ==
    /\ pc = "idle"
    /\ doc' = [t |-> "doc",
               conv_id |-> conv_data_dict.id,
               ctx_length |-> history_ctx_len,
               logs |-> annotation_logs]
    /\ UNCHANGED genVars
    /\ UNCHANGED <<conv_file, conv_data_dict, history_ctx_len, annotation_logs,
                   ctx_history, pc, it, last, speak_hists, speak_rets,
                   agent_raised, run_base, started, completed, failed, calls>>

\* to_dict, called between runs: the fields of the returned document that
\* depend on the state (timestamp and annotator description are left out).
\* doc holds the document as returned; the caller lets go of it when the next
\* begin_annotation starts.
ToDict ==
    /\ pc = "idle"
    /\ doc' = [t |-> "doc",
               conv_id |-> JStr(PyStr(conv_data_dict.id)),
               ctx_length |-> history_ctx_len,
               logs |-> annotation_logs]
    /\ UNCHANGED genVars
    /\ UNCHANGED <<conv_file, conv_data_dict, history_ctx_len, annotation_logs,
                   ctx_history, pc, it, last, speak_hists, speak_rets,
                   agent_raised, run_base, started, completed, failed, calls>>

\* ------------------------------------------------ AnnotationConv: claims
\* The formatted forms of the last min(history_ctx_len, t) of the first t
\* input messages, oldest first.
Window(t) ==
    LET k == Min(history_ctx_len, t)
    IN [j \in 1..k |-> format_chat_message(logs[t - k + j][1], logs[t - k + j][2])]

\* The entries the current run has appended are the raw messages 1..n paired
\* with the results the annotator returned, in order.
RunBlockAligned(n) ==
    \A i \in 1..n :
        annotation_logs[run_base + i] = <<logs[i][2], speak_rets[i]>>

FreshRunDone == pc = "idle" /\ started = 1 /\ completed = 1

\* C1: one complete run of begin_annotation on a fresh AnnotationConv leaves
\* exactly N log entries, the i-th being (raw text of the i-th input message,
\* result of the annotator's i-th speak call).
C1_OneEntryPerMessage ==
    FreshRunDone =>
        /\ Len(annotation_logs) = N
        /\ Len(speak_rets) = N
        /\ \A i \in 1..N : annotation_logs[i] = <<logs[i][2], speak_rets[i]>>

C1_Witness ==
    /\ FreshRunDone
    /\ N = 3
    /\ logs[1] # logs[2]
    /\ speak_rets[2] # speak_rets[3]

\* C2: the history window never holds more than history_ctx_len entries, and
\* after the step for the t-th message it is the formatted last
\* min(history_ctx_len, t) input messages, oldest first (also for length 0).
C2_WindowBounded ==
    /\ Len(ctx_history) <= history_ctx_len
    /\ pc \in {"loop", "speak"} => ctx_history = Window(it)

C2_Witness ==
    /\ pc = "loop"
    /\ it = 3
    /\ history_ctx_len = 2
    /\ Len(ctx_history) = 2
    /\ logs[1] # logs[2]

\* C3 as stated: over a 3-message transcript with history_ctx_len = 1 the log
\* has 3 entries and the annotator's second call sees only message 1.
C3_SecondCallSeesMessage1 ==
    (FreshRunDone /\ N = 3 /\ history_ctx_len = 1) =>
        /\ Len(annotation_logs) = 3
        /\ speak_hists[2] = <<format_chat_message(logs[1][1], logs[1][2])>>

\* C3 amended: over a 3-message transcript with history_ctx_len = 1 the log
\* has 3 entries and the annotator's second call sees exactly one entry,
\* message 2 (the message being annotated), not message 1.
C3_SecondCallSeesMessage2 ==
    (FreshRunDone /\ N = 3 /\ history_ctx_len = 1) =>
        /\ Len(annotation_logs) = 3
        /\ speak_hists[2] = <<format_chat_message(logs[2][1], logs[2][2])>>

C3_Witness ==
    /\ FreshRunDone
    /\ N = 3
    /\ history_ctx_len = 1
    /\ logs[1] # logs[2]
    /\ Len(speak_hists) = 3

\* C6: when the annotator's generation call fails on the k-th message the
\* failure reaches the caller, speak has been called exactly k times in the
\* run, no later message is processed, and the log keeps the k-1 entries of
\* messages 1..k-1 in order (on a fresh instance these are the whole log).
C6_FailurePropagates ==
    agent_raised =>
        /\ pc = "idle"
        /\ last = "raised"
        /\ it >= 1
        /\ Len(speak_hists) = it
        /\ Len(speak_rets) = it - 1
        /\ Len(annotation_logs) = run_base + it - 1
        /\ RunBlockAligned(it - 1)
        /\ started = 1 => run_base = 0

C6_Witness ==
    /\ agent_raised
    /\ started = 1
    /\ it = 2
    /\ N = 3
    /\ Len(annotation_logs) = 1

\* C8 as stated: the document to_dict returns has the annotation log as its
\* logs, the id of the source transcript as its conv_id and history_ctx_len
\* as its ctx_length, and to_dict changes neither log nor transcript.
C8_ConvIdIsTranscriptId ==
    doc.t = "doc" =>
        /\ doc.logs = annotation_logs
        /\ SameJson(doc.conv_id, conv_file.id)
        /\ doc.ctx_length = history_ctx_len
        /\ conv_data_dict = conv_file
        /\ Len(annotation_logs) = run_base + Len(speak_rets)
        /\ RunBlockAligned(Len(speak_rets))

\* C8 amended: as stated, except that conv_id is str() of the id of the
\* source transcript: the id itself only when the id is a string.
C8_ExportMatchesLog ==
    doc.t = "doc" =>
        /\ doc.logs = annotation_logs
        /\ SameJson(doc.conv_id, JStr(PyStr(conv_file.id)))
        /\ doc.ctx_length = history_ctx_len
        /\ conv_data_dict = conv_file
        /\ Len(annotation_logs) = run_base + Len(speak_rets)
        /\ RunBlockAligned(Len(speak_rets))

C8_Witness ==
    /\ doc.t = "doc"
    /\ conv_file.id.t = "num"
    /\ last = "raised"
    /\ started = 2
    /\ Len(doc.logs) = 4

\* C9: each message is formatted and pushed before the annotator is called
\* for it: the history of the i-th speak call is the formatted messages
\* max(1, i-L+1)..i, oldest first (ending with message i when L >= 1, empty
\* when L = 0), and the log entry of message i is appended only after that
\* call has returned.
C9_PushBeforeSpeak ==
    /\ \A i \in 1..Len(speak_hists) :
          /\ speak_hists[i] = Window(i)
          /\ history_ctx_len >= 1 =>
                speak_hists[i][Len(speak_hists[i])]
                    = format_chat_message(logs[i][1], logs[i][2])
          /\ history_ctx_len = 0 => speak_hists[i] = <<>>
    /\ pc = "speak" =>
          /\ Len(speak_hists) = it
          /\ Len(speak_rets) = it - 1
          /\ Len(annotation_logs) = run_base + it - 1
    /\ pc = "loop" =>
          /\ Len(speak_hists) = it
          /\ Len(speak_rets) = it
          /\ Len(annotation_logs) = run_base + it

C9_Witness ==
    /\ pc = "speak"
    /\ it = 3
    /\ history_ctx_len = 2
    /\ logs[2] # logs[3]

\* C10: begin_annotation can be called again on the same AnnotationConv: each
\* call starts from an empty window, reads the unchanged transcript, and
\* appends N further entries without clearing the log, so that after k
\* completed calls the log has k*N entries, each block of N aligned with the
\* input messages.
C10_RepeatedRunsAppend ==
    /\ conv_data_dict = conv_file
    /\ (pc = "loop" /\ it = 0) => ctx_history = <<>>
    /\ Len(speak_hists) >= 1 => speak_hists[1] = Window(1)
    /\ (pc = "idle" /\ failed = 0) =>
          /\ Len(annotation_logs) = completed * N
          /\ \A j \in 1..Len(annotation_logs) :
                annotation_logs[j][1] = logs[((j - 1) % N) + 1][2]

C10_Witness ==
    /\ pc = "idle"
    /\ failed = 0
    /\ completed = 2
    /\ N = 3
    /\ history_ctx_len = 2
    /\ logs[1] # logs[3]

\* ------------------------------------- LLMConvData / LLMConvGenerator
UserNames == { "a", "b" }
ModeratorFieldValues == { None, JStr("set") }
TurnManagerTypes == { "round_robin", "no_such_policy" }
Models == { None, JStr("model") }

\* The mappings offered to LLMConvData: the dataclass fields that the
\* validation and the generator read, and `extra`, whether the JSON document
\* carries a key that is no field of the dataclass.
ArgSets ==
    [ user_names : SeqsUpTo(UserNames, MaxUsers),
      user_attributes : SeqsUpTo({ <<"x">> }, MaxUsers),
      turn_manager_type : TurnManagerTypes,
      conv_len : 0..MaxConvLen,
      moderator_name : ModeratorFieldValues,
      moderator_attributes : ModeratorFieldValues,
      moderator_instructions : ModeratorFieldValues,
      extra : BOOLEAN ]

\* At least one, but not all three, of the moderator fields is given.
PartialModerator(d) ==
    LET given == { f \in { "moderator_name", "moderator_attributes",
                           "moderator_instructions" } : d[f] # None }
    IN given # {} /\ Cardinality(given) # 3

\* __post_init__ with the assertion left out
post_init_unchecked(d) == TRUE

\* LLMConvData.__post_init__: the assertion's condition
post_init(d) == Len(d.user_names) = Len(d.user_attributes)

\* from_json_file: only the keys that are fields of the dataclass are kept
filtered_arg_dict(d) == [d EXCEPT !.extra = FALSE]

\* LLMConvData(**kwargs): the dataclass __init__ followed by __post_init__
LLMConvData(kwargs) ==
    IF post_init(kwargs)
    THEN /\ data' = kwargs
         /\ error' = "none"
    ELSE /\ data' = None
         /\ error' = "AssertionError"

\* Direct construction from keyword arguments (all of them fields).
Construct ==
    /\ data = None /\ error = "none"
    /\ ~args.extra
    /\ LLMConvData(args)
    /\ UNCHANGED <<args, gen, tms, convs>>
    /\ UNCHANGED annVars

\* LLMConvData.from_json_file
from_json_file ==
    /\ data = None /\ error = "none"
    /\ LLMConvData(filtered_arg_dict(args))
    /\ UNCHANGED <<args, gen, tms, convs>>
    /\ UNCHANGED annVars

\* turn_manager.turn_manager_factory: whether the tag and the roster are
\* accepted (an unknown tag or an empty roster is a configuration error)
turn_manager_factory_ok(turn_manager_type, names) ==
    turn_manager_type = "round_robin" /\ Len(names) > 0

\* LLMConvGenerator.__init__
NewGenerator ==
    /\ data # None /\ gen = None /\ error = "none"
    /\ \E user_model \in Models, moderator_model \in Models :
          IF user_model = None
             \/ (moderator_model = None /\ data.moderator_name # None)
          THEN /\ error' = "AssertionError"
               /\ UNCHANGED <<gen, tms>>
          ELSE IF ~turn_manager_factory_ok(data.turn_manager_type, data.user_names)
          THEN /\ error' = "ConfigurationError"
               /\ UNCHANGED <<gen, tms>>
          ELSE /\ tms' = Append(tms, 0)
               /\ gen' = [ t |-> "gen",
                           user_model |-> user_model,
                           moderator_model |-> moderator_model,
                           data |-> data,
                           next_turn_manager |-> Len(tms) + 1 ]
               /\ error' = "none"
    /\ UNCHANGED <<args, data, convs>>
    /\ UNCHANGED annVars

\* produce_conversation handing every Conversation a TurnManager of its own
ProduceConversationOwnManager ==
    /\ gen # None /\ error = "none"
    /\ Len(convs) < MaxConvs
    /\ tms' = Append(tms, 0)
    /\ convs' = Append(convs,
                  [ turn_manager |-> Len(tms) + 1,
                    users |-> gen.data.user_names,
                    moderator |-> None,
                    conv_len |-> gen.data.conv_len,
                    turns |-> 0,
                    speakers |-> <<>> ])
    /\ UNCHANGED <<args, data, error, gen>>
    /\ UNCHANGED annVars

\* LLMConvGenerator.produce_conversation
ProduceConversation ==
    /\ gen # None /\ error = "none"
    /\ Len(convs) < MaxConvs
    /\ IF Len(gen.data.user_attributes) < Len(gen.data.user_names)
       THEN \* self.data.user_attributes[i] is out of range
            /\ error' = "IndexError"
            /\ UNCHANGED convs
       ELSE LET moderator ==
                    IF /\ gen.data.moderator_name # None
                       /\ gen.moderator_model # None
                       /\ gen.data.moderator_attributes # None
                       /\ gen.data.moderator_instructions # None
                    THEN gen.data.moderator_name
                    ELSE None
            IN /\ convs' = Append(convs,
                     [ turn_manager |-> gen.next_turn_manager,
                       users |-> gen.data.user_names,
                       moderator |-> moderator,
                       conv_len |-> gen.data.conv_len,
                       turns |-> 0,
                       speakers |-> <<>> ])
               /\ UNCHANGED error
    /\ UNCHANGED <<args, data, gen, tms>>
    /\ UNCHANGED annVars

\* Conversation, one turn: the round-robin TurnManager names the next speaker
\* and moves on; the speaker is recorded. At most conv_len turns.
AdvanceTurn ==
    /\ \E c \in 1..Len(convs) :
          LET conv == convs[c]
              ref == conv.turn_manager
              roster == conv.users
          IN /\ conv.turns < conv.conv_len
             /\ tms' = [tms EXCEPT ![ref] = (@ + 1) % Len(roster)]
             /\ convs' = [convs EXCEPT
                             ![c].turns = @ + 1,
                             ![c].speakers = Append(@, roster[tms[ref] + 1])]
    /\ UNCHANGED <<args, data, error, gen>>
    /\ UNCHANGED annVars

\* ------------------------------------ configuration and generator: claims
LengthMismatch == Len(args.user_names) # Len(args.user_attributes)

C5_PartialModeratorRejected ==
    PartialModerator(args) => convs = <<>>

\* C7: Conversations of one generator share no turn-selection state: the
\* speaker sequence of each is the round-robin sequence over its roster from
\* the roster's first entry, whatever the other Conversations do.
C7_IndependentSpeakerSequences ==
    \A c \in 1..Len(convs) :
        \A i \in 1..Len(convs[c].speakers) :
            convs[c].speakers[i]
                = convs[c].users[((i - 1) % Len(convs[c].users)) + 1]

\* ------------------------------------------------------ specifications
\* The configuration side is not used by Spec.
GenIdle ==
    /\ args = None /\ data = None /\ error = "none" /\ gen = None
    /\ tms = <<>> /\ convs = <<>>

Init == AnnInit /\ GenIdle

Next ==
    \/ BeginAnnotation
    \/ NextMessage
    \/ SpeakReturn
    \/ SpeakRaise
    \/ EndAnnotation
    \/ ToDict

Spec == Init /\ [][Next]_vars

\* The AnnotationConv side is not used by SpecGen.
AnnIdle ==
    /\ conv_file = [id |-> JStr("c1"), logs |-> <<>>]
    /\ conv_data_dict = conv_file
    /\ history_ctx_len = 0
    /\ annotation_logs = <<>>
    /\ ctx_history = <<>>
    /\ pc = "idle"
    /\ it = 0
    /\ last = "none"
    /\ doc = NoDoc
    /\ speak_hists = <<>>
    /\ speak_rets = <<>>
    /\ agent_raised = FALSE
    /\ run_base = 0
    /\ started = 0
    /\ completed = 0
    /\ failed = 0
    /\ calls = 0

InitGen ==
    /\ AnnIdle
    /\ args \in ArgSets
    /\ data = None
    /\ error = "none"
    /\ gen = None
    /\ tms = <<>>
    /\ convs = <<>>

NextGen ==
    \/ Construct
    \/ from_json_file
    \/ NewGenerator
    \/ ProduceConversation
    \/ AdvanceTurn

SpecGen == InitGen /\ [][NextGen]_vars

====
